---- MODULE Spec2Model ----
(***************************************************************************)
(* Model of task_3.py: three sorting algorithms, the dataset generator,    *)
(* the timeit harness, the benchmark loop and the growth-factor table.     *)
(*                                                                         *)
(* Python lists are objects of a heap: a heap is a sequence of lists and a *)
(* reference is an index into it, so that aliasing (a = lst) and copying   *)
(* (a = lst[:]) are different things.  Python indices are 0-based, TLA+    *)
(* sequences 1-based: a[j] of the source is h[a][j + 1] here.              *)
(***************************************************************************)
EXTENDS Integers, Sequences, FiniteSets

VARIABLES
    stream,       \* outputs of random.Random(seed), per seed: fixed, unknown
    tape,         \* readings of the timeit clock: fixed, unknown
    s_pc, s_alg, s_arg, s_after, s_ret,          \* one call of a sort
    g_first, g_last, g_rnd,                      \* calls of make_dataset
    t_pc, t_func, t_data, t_repeats, t_out,      \* one call of time_algorithm
    pc, sizes, large_sizes, patterns, repeats,   \* run_benchmarks
    rows, p_i, n_i, a_i, data, tick,
    c_pc, c_rows, c_out                          \* compute_growth

envVars   == <<stream, tape>>
sortVars  == <<s_pc, s_alg, s_arg, s_after, s_ret>>
genVars   == <<g_first, g_last, g_rnd>>
timeVars  == <<t_pc, t_func, t_data, t_repeats, t_out>>
benchVars == <<pc, sizes, large_sizes, patterns, repeats, rows, p_i, n_i, a_i, data,
               tick>>
growVars  == <<c_pc, c_rows, c_out>>
vars == <<envVars, sortVars, genVars, timeVars, benchVars, growVars>>

----------------------------------------------------------------------------
(* Bounds *)

MaxLen == 3        \* longest list handed to a sort
MaxVal == 1        \* list elements are -1 .. MaxVal

Values == -1 .. MaxVal

RECURSIVE SeqsUpTo(_, _)
SeqsUpTo(S, n) ==
    IF n = 0 THEN {<<>>}
    ELSE LET shorter == SeqsUpTo(S, n - 1)
         IN shorter \cup {Append(q, x) : q \in {r \in shorter : Len(r) = n - 1}, x \in S}

Lists == SeqsUpTo(Values, MaxLen)

----------------------------------------------------------------------------
(* Helpers on sequences *)

Range(s) == {s[k] : k \in 1 .. Len(s)}

Count(s, v) == Cardinality({k \in 1 .. Len(s) : s[k] = v})

CountBelow(s, v) == Cardinality({k \in 1 .. Len(s) : s[k] < v})

IsSorted(s) == \A k \in 1 .. Len(s) - 1 : s[k] <= s[k + 1]

IsPermutation(s, t) ==
    /\ Len(s) = Len(t)
    /\ \A v \in Range(s) \cup Range(t) : Count(s, v) = Count(t, v)

Max2(a, b) == IF a >= b THEN a ELSE b

----------------------------------------------------------------------------
(* Sorting algorithms *)

\* Mutant: a = lst, an alias instead of a copy.
SliceCopyAlias(h, r) == [heap |-> h, ref |-> r]

\* lst[:] : a new list object holding the elements of h[r].
SliceCopy(h, r) == [heap |-> Append(h, h[r]), ref |-> Len(h) + 1]

\* lst[lo:hi] : a new list object.
Slice(h, r, lo, hi) == [heap |-> Append(h, SubSeq(h[r], lo + 1, hi)), ref |-> Len(h) + 1]

\* Mutant: the key is never written back after the shifts.
RECURSIVE InsertionWhileNoStore(_, _, _, _)
InsertionWhileNoStore(h, a, j, key) ==
    IF j >= 0 /\ key < h[a][j + 1]
    THEN InsertionWhileNoStore([h EXCEPT ![a][j + 2] = h[a][j + 1]], a, j - 1, key)
    ELSE h

\* while j >= 0 and key < a[j]: a[j + 1] = a[j]; j -= 1   then   a[j + 1] = key
RECURSIVE InsertionWhile(_, _, _, _)
InsertionWhile(h, a, j, key) ==
    IF j >= 0 /\ key < h[a][j + 1]
    THEN InsertionWhile([h EXCEPT ![a][j + 2] = h[a][j + 1]], a, j - 1, key)
    ELSE [h EXCEPT ![a][j + 2] = key]

\* for i in range(1, len(a)): key = a[i]; j = i - 1; ...
RECURSIVE InsertionFor(_, _, _)
InsertionFor(h, a, i) ==
    IF i >= Len(h[a]) THEN h
    ELSE InsertionFor(InsertionWhile(h, a, i - 1, h[a][i + 1]), a, i + 1)

insertion_sort(h, lst) ==
    LET c == SliceCopy(h, lst)
    IN [heap |-> InsertionFor(c.heap, c.ref, 1), ref |-> c.ref]

\* The two trailing res.extend(...) of _merge.
MergeTail(h, left, right, res, i, j) ==
    LET h1 == IF i < Len(h[left])
              THEN [h EXCEPT ![res] = @ \o SubSeq(h[left], i + 1, Len(h[left]))]
              ELSE h
    IN IF j < Len(h1[right])
       THEN [h1 EXCEPT ![res] = @ \o SubSeq(h1[right], j + 1, Len(h1[right]))]
       ELSE h1

RECURSIVE MergeWhile(_, _, _, _, _, _)
MergeWhile(h, left, right, res, i, j) ==
    IF i < Len(h[left]) /\ j < Len(h[right])
    THEN IF h[left][i + 1] <= h[right][j + 1]
         THEN MergeWhile([h EXCEPT ![res] = Append(@, h[left][i + 1])],
                         left, right, res, i + 1, j)
         ELSE MergeWhile([h EXCEPT ![res] = Append(@, h[right][j + 1])],
                         left, right, res, i, j + 1)
    ELSE MergeTail(h, left, right, res, i, j)

\* _merge(left, right): res is a new list object.
merge(h, left, right) ==
    LET res == Len(h) + 1
    IN [heap |-> MergeWhile(Append(h, <<>>), left, right, res, 0, 0), ref |-> res]

RECURSIVE merge_sort(_, _)
merge_sort(h, arr) ==
    LET c == SliceCopy(h, arr)
        n == Len(c.heap[c.ref])
    IN IF n <= 1 THEN c
       ELSE LET mid == n \div 2
                lo  == Slice(c.heap, c.ref, 0, mid)
                l   == merge_sort(lo.heap, lo.ref)
                hi  == Slice(l.heap, c.ref, mid, n)
                r   == merge_sort(hi.heap, hi.ref)
            IN merge(r.heap, l.ref, r.ref)

\* The built-in sorted(): the non-decreasing arrangement of the elements,
\* position k holding the value v with  #(< v) < k <= #(<= v).
sorted(s) ==
    [k \in 1 .. Len(s) |->
        CHOOSE v \in Range(s) : CountBelow(s, v) < k /\ k <= CountBelow(s, v) + Count(s, v)]

\* timsort(arr) = sorted(arr): a new list object.
timsort(h, arr) == [heap |-> Append(h, sorted(h[arr])), ref |-> Len(h) + 1]

\* A callable that sorts the list it is given in place (list.sort): not one
\* of ALGORITHMS, but a func time_algorithm accepts.
sort_in_place(h, arr) == [heap |-> [h EXCEPT ![arr] = sorted(h[arr])], ref |-> arr]

\* The registry, in registration order.
ALGORITHMS == <<"Insertion", "Merge", "Timsort (built-in)">>

AlgNames == Range(ALGORITHMS)

\* ALGORITHMS[name](lst), and the in-place callable under the name "InPlace".
CallFunc(name, h, lst) ==
    CASE name = "Insertion"          -> insertion_sort(h, lst)
      [] name = "Merge"              -> merge_sort(h, lst)
      [] name = "Timsort (built-in)" -> timsort(h, lst)
      [] name = "InPlace"            -> sort_in_place(h, lst)

----------------------------------------------------------------------------
(* SpecSort: one call of one algorithm on the caller's list *)

InitOthersSort ==
    /\ stream = <<>> /\ tape = <<>>
    /\ g_first = <<>> /\ g_last = <<>> /\ g_rnd = <<>>
    /\ t_pc = "off" /\ t_func = "" /\ t_data = <<>> /\ t_repeats = 0 /\ t_out = <<>>
    /\ pc = "off" /\ sizes = <<>> /\ large_sizes = <<>> /\ patterns = <<>>
    /\ repeats = 0 /\ rows = <<>> /\ p_i = 0 /\ n_i = 0 /\ a_i = 0 /\ data = <<>>
    /\ tick = 0
    /\ c_pc = "off" /\ c_rows = <<>> /\ c_out = <<>>

InitSort ==
    /\ s_pc = "call"
    /\ s_alg \in AlgNames
    /\ s_arg \in Lists
    /\ s_after = s_arg
    /\ s_ret = <<>>
    /\ InitOthersSort

\* ret = ALGORITHMS[s_alg](lst) with the caller's list lst at reference 1.
SortCall ==
    /\ s_pc = "call"
    /\ LET r == CallFunc(s_alg, <<s_arg>>, 1)
       IN /\ s_after' = r.heap[1]
          /\ s_ret' = r.heap[r.ref]
    /\ s_pc' = "returned"
    /\ UNCHANGED <<s_alg, s_arg, envVars, genVars, timeVars, benchVars, growVars>>

NextSort == SortCall

SpecSort == InitSort /\ [][NextSort]_vars

\* C1: whatever the algorithm and the input list, the returned list is
\* non-decreasing and a permutation of the input (same length, same multiset).
C1_SortedPermutation ==
    s_pc = "returned" => IsSorted(s_ret) /\ IsPermutation(s_ret, s_arg)

\* C1 witness: insertion sort, merge sort and timsort can each return from a
\* list with a duplicate and an inversion; here one of them has.
C1_Witness ==
    /\ s_pc = "returned"
    /\ Len(s_arg) = MaxLen
    /\ \E k \in 1 .. Len(s_arg) - 1 : s_arg[k] > s_arg[k + 1]
    /\ \E k, m \in 1 .. Len(s_arg) : k # m /\ s_arg[k] = s_arg[m]
    /\ s_alg = "Merge"

\* C2: after the call the caller's list holds the same elements in the same
\* order as before it.
C2_InputUnchanged ==
    s_pc = "returned" => s_after = s_arg

\* C2 witness: insertion sort has returned from an unsorted list, so it did
\* write (to its copy) and the result differs from the input.
C2_Witness ==
    /\ s_pc = "returned"
    /\ s_alg = "Insertion"
    /\ s_ret # s_arg
    /\ s_after = s_arg

----------------------------------------------------------------------------
(* Dataset generator *)

SeedSmall == 123       \* seed of the datasets of sizes
SeedLarge == 777       \* seed of the datasets of large_sizes
RandMax == 1000000     \* rnd.randint(0, 1_000_000)
SwapDivisor == 100     \* swaps = max(1, n // 100)

MaxN == 2          \* make_dataset is called with n in 0 .. MaxN, and with BigN
BigN == 200        \* a size with n // 100 = 2
RawMax == 4        \* the generator yields 0 .. RawMax - 1

Seeds == {SeedSmall, SeedLarge}

Raw == 0 .. RawMax - 1

\* The outputs in the specifications that make many calls.
Coin == 0 .. 1

SupportedPatterns == {"random", "sorted", "reversed", "nearly_sorted"}

AllPatterns == SupportedPatterns \cup {"zigzag"}

GenSizes == (0 .. MaxN) \cup {BigN}

\* The number of outputs make_dataset(n, pattern, seed) reads from its
\* generator: n for a random dataset, two per swap for a nearly sorted one
\* (none when n = 0: the first randrange raises before it reads).
Draws(n, pattern) ==
    CASE pattern = "random" -> n
      [] pattern = "nearly_sorted" -> IF n <= 0 THEN 0 ELSE 2 * Max2(1, n \div SwapDivisor)
      [] OTHER -> 0

\* The draws of the swaps of one dataset of BigN elements.
SwapDraws == Draws(BigN, "nearly_sorted")

\* The draws of the longest call with a size of 0 .. MaxN.
ShortDraws == Max2(Draws(MaxN, "random"), Draws(MaxN, "nearly_sorted"))

\* SpecGen makes one call, so one generator: any SwapDraws outputs for its
\* seed; the other seed has no generator and no outputs.
Streams ==
    {[s \in Seeds |-> IF s = t THEN q ELSE <<>>] :
        t \in Seeds, q \in [1 .. SwapDraws -> Raw]}

\* Any ShortDraws outputs of Coin for each seed, independently.
ShortStreams == [Seeds -> [1 .. ShortDraws -> Coin]]

\* Mutant: the new generator continues where the previous one stopped.
RandomReuse(seed, prev) == [seed |-> seed, pos |-> prev.pos]

\* random.Random(seed): a new generator at the start of the seed's stream,
\* whatever generator prev was made before.
Random(seed, prev) == [seed |-> seed, pos |-> 0]

\* rnd after k draws.
Advance(rnd, k) == [rnd EXCEPT !.pos = @ + k]

\* The k-th next output of rnd (k = 0 for the next one).
RawAt(rnd, k) == stream[rnd.seed][rnd.pos + k + 1]

\* rnd.randrange(n): ValueError on an empty range.
randrange(rnd, n) ==
    IF n <= 0
    THEN [raise |-> "ValueError: empty range for randrange()", val |-> 0, rnd |-> rnd]
    ELSE [raise |-> "none", val |-> RawAt(rnd, 0) % n, rnd |-> Advance(rnd, 1)]

\* [rnd.randint(0, 1_000_000) for _ in range(n)]
RandomList(rnd, n) == [k \in 1 .. n |-> RawAt(rnd, k - 1) % (RandMax + 1)]

\* Mutant: a[i] = a[j]; a[j] = a[i], which loses a[i].
SwapSequential(a, i, j) == [a EXCEPT ![i + 1] = a[j + 1]]

\* a[i], a[j] = a[j], a[i]
Swap(a, i, j) == [a EXCEPT ![i + 1] = a[j + 1], ![j + 1] = a[i + 1]]

\* for _ in range(swaps): i, j = rnd.randrange(n), rnd.randrange(n); swap
RECURSIVE SwapLoop(_, _, _, _)
SwapLoop(a, rnd, n, swaps) ==
    IF swaps = 0 THEN [raise |-> "none", val |-> a, rnd |-> rnd]
    ELSE LET i == randrange(rnd, n)
             j == randrange(i.rnd, n)
         IN IF i.raise # "none" THEN [raise |-> i.raise, val |-> <<>>, rnd |-> rnd]
            ELSE SwapLoop(Swap(a, i.val, j.val), j.rnd, n, swaps - 1)

make_dataset(n, pattern, seed, prev) ==
    LET rnd == Random(seed, prev)
    IN CASE pattern = "random" ->
                [raise |-> "none", val |-> RandomList(rnd, n), rnd |-> Advance(rnd, n)]
         [] pattern = "sorted" ->
                [raise |-> "none", val |-> [k \in 1 .. n |-> k - 1], rnd |-> rnd]
         [] pattern = "reversed" ->
                [raise |-> "none", val |-> [k \in 1 .. n |-> n - k + 1], rnd |-> rnd]
         [] pattern = "nearly_sorted" ->
                SwapLoop([k \in 1 .. n |-> k - 1], rnd, n, Max2(1, n \div SwapDivisor))
         [] OTHER ->
                [raise |-> "ValueError: Unknown pattern", val |-> <<>>, rnd |-> rnd]

----------------------------------------------------------------------------
(* SpecGen: one call of make_dataset, recorded.                            *)
(* SpecDet: calls one after another, the first and the last recorded.      *)

InitOthersGen ==
    /\ tape = <<>>
    /\ s_pc = "off" /\ s_alg = "" /\ s_arg = <<>> /\ s_after = <<>> /\ s_ret = <<>>
    /\ t_pc = "off" /\ t_func = "" /\ t_data = <<>> /\ t_repeats = 0 /\ t_out = <<>>
    /\ pc = "off" /\ sizes = <<>> /\ large_sizes = <<>> /\ patterns = <<>>
    /\ repeats = 0 /\ rows = <<>> /\ p_i = 0 /\ n_i = 0 /\ a_i = 0 /\ data = <<>>
    /\ tick = 0
    /\ c_pc = "off" /\ c_rows = <<>> /\ c_out = <<>>

NoGenerator == [seed |-> 0, pos |-> 0]

InitGen ==
    /\ stream \in Streams
    /\ g_first = <<>>
    /\ g_last = <<>>
    /\ g_rnd = NoGenerator
    /\ InitOthersGen

InitDet ==
    /\ stream \in ShortStreams
    /\ g_first = <<>>
    /\ g_last = <<>>
    /\ g_rnd = NoGenerator
    /\ InitOthersGen

CallRecord(n, pattern, seed, d, nth) ==
    [n |-> n, pattern |-> pattern, seed |-> seed, raise |-> d.raise, val |-> d.val,
     nth |-> nth]

\* The outputs kept for the seed suffice for make_dataset(n, pattern, seed).
HasOutputs(n, pattern, seed, prev) ==
    Random(seed, prev).pos + Draws(n, pattern) <= Len(stream[seed])

\* make_dataset(n, pattern, seed): the one call of a run of SpecGen
MakeDatasetCall ==
    \E n \in GenSizes, pattern \in AllPatterns, seed \in Seeds :
        LET d == make_dataset(n, pattern, seed, g_rnd)
        IN /\ g_last = <<>>
           /\ HasOutputs(n, pattern, seed, g_rnd)
           /\ g_last' = <<CallRecord(n, pattern, seed, d, 1)>>
           /\ g_rnd' = d.rnd
           /\ UNCHANGED <<g_first, envVars, sortVars, timeVars, benchVars, growVars>>

\* make_dataset(n, pattern, seed), after any calls made before; nth counts
\* the calls up to 3.
MakeDatasetAgain ==
    \E n \in 0 .. MaxN, pattern \in AllPatterns, seed \in Seeds :
        LET d == make_dataset(n, pattern, seed, g_rnd)
            nth == IF g_last = <<>> THEN 1
                   ELSE IF g_last[1].nth < 3 THEN g_last[1].nth + 1 ELSE 3
            rec == CallRecord(n, pattern, seed, d, nth)
        IN /\ HasOutputs(n, pattern, seed, g_rnd)
           /\ g_last' = <<rec>>
           /\ g_first' = IF g_first = <<>> THEN <<rec>> ELSE g_first
           /\ g_rnd' = d.rnd
           /\ UNCHANGED <<envVars, sortVars, timeVars, benchVars, growVars>>

NextGen == MakeDatasetCall

SpecGen == InitGen /\ [][NextGen]_vars

NextDet == MakeDatasetAgain

SpecDet == InitDet /\ [][NextDet]_vars

\* Number of positions where the list differs from 0, 1, ..., n - 1.
Displaced(a) == Cardinality({k \in 1 .. Len(a) : a[k] # k - 1})

\* C3 (as claimed): for each of the four supported patterns and every seed,
\* make_dataset with size 0 returns the empty list and raises nothing.
C3_EmptyDataset ==
    \A k \in 1 .. Len(g_last) :
        (g_last[k].n = 0 /\ g_last[k].pattern \in SupportedPatterns)
            => (g_last[k].raise = "none" /\ g_last[k].val = <<>>)

\* C7: for n >= 1, make_dataset(n, "nearly_sorted", seed) is a permutation of
\* 0 .. n - 1 and differs from it in at most 2 * max(1, n / 100) positions
\* (50 * d <= max(100, n) is d <= 2 * max(1, n / 100) without the division).
C7_NearlySorted ==
    \A k \in 1 .. Len(g_last) :
        (g_last[k].pattern = "nearly_sorted" /\ g_last[k].n >= 1)
            => /\ g_last[k].raise = "none"
               /\ IsPermutation(g_last[k].val, [m \in 1 .. g_last[k].n |-> m - 1])
               /\ 50 * Displaced(g_last[k].val) <= Max2(100, g_last[k].n)

\* C7 witness: a nearly sorted dataset of BigN elements whose two swaps moved
\* four elements.
C7_Witness ==
    /\ g_last # <<>>
    /\ g_last[1].pattern = "nearly_sorted"
    /\ g_last[1].n = BigN
    /\ Displaced(g_last[1].val) = 4

\* C8: two calls of make_dataset with the same size, pattern and seed return
\* the same (element for element), whatever calls were made between them.
C8_Deterministic ==
    (g_first # <<>> /\ g_last # <<>>
        /\ g_first[1].n = g_last[1].n
        /\ g_first[1].pattern = g_last[1].pattern
        /\ g_first[1].seed = g_last[1].seed)
    => (g_first[1].raise = g_last[1].raise /\ g_first[1].val = g_last[1].val)

\* C8 witness: the third or a later call repeats the first call's random
\* dataset of two elements, which are not equal to each other.
C8_Witness ==
    /\ g_first # <<>> /\ g_last # <<>>
    /\ g_last[1].nth = 3
    /\ g_first[1].pattern = "random" /\ g_last[1].pattern = "random"
    /\ g_first[1].n = 2 /\ g_last[1].n = 2
    /\ g_first[1].seed = g_last[1].seed
    /\ g_last[1].val[1] # g_last[1].val[2]

----------------------------------------------------------------------------
(* Timing harness *)

MaxDur == 2        \* a timed call takes 0 .. MaxDur ticks
TapeLen == 2       \* period of the modelled clock
MaxRepeats == 2    \* repeats is at most MaxRepeats
MaxData == 2       \* longest dataset handed to time_algorithm on its own

Durations == 0 .. MaxDur

Tapes == [1 .. TapeLen -> Durations]

\* Mutant: stmt calls func(data), the dataset itself.
StmtArgAlias(h, dref) == [heap |-> h, ref |-> dref]

\* The argument of func in stmt: data[:], a new list object (dref refers to data).
StmtArg(h, dref) == SliceCopy(h, dref)

\* One timer.timeit(number=1): stmt() once, func(data[:]).  The result of
\* func is dropped; the heap keeps the dataset (reference 1) only.
Stmt(func, h, dref) ==
    LET arg == StmtArg(h, dref)
        r   == CallFunc(func, arg.heap, arg.ref)
    IN [heap |-> <<r.heap[dref]>>,
        trial |-> [fresh |-> arg.ref # dref, arg |-> arg.heap[arg.ref]]]

\* min(times) of a non-empty list.
RECURSIVE PyMin(_)
PyMin(times) ==
    IF Len(times) = 1 THEN times[1]
    ELSE LET m == PyMin(Tail(times)) IN IF times[1] <= m THEN times[1] ELSE m

\* timer.repeat(repeat=repeats, number=1): k trials to go, tk the clock
\* position, acc the times and the trials so far.
RECURSIVE TimerRepeat(_, _, _, _, _, _)
TimerRepeat(func, h, dref, k, tk, acc) ==
    IF k <= 0 THEN [heap |-> h, tick |-> tk, times |-> acc.times, trials |-> acc.trials]
    ELSE LET s == Stmt(func, h, dref)
         IN TimerRepeat(func, s.heap, dref, k - 1, (tk + 1) % TapeLen,
                        [times |-> Append(acc.times, tape[tk + 1]),
                         trials |-> Append(acc.trials, s.trial)])

\* time_algorithm(func, data, repeats) with the dataset's elements in dataval
\* and the clock at tk.  min([]) of repeats = 0 raises ValueError.
time_algorithm(func, dataval, reps, tk) ==
    LET r == TimerRepeat(func, <<dataval>>, 1, reps, tk,
                         [times |-> <<>>, trials |-> <<>>])
    IN [raise |-> IF r.times = <<>> THEN "ValueError: min() arg is an empty sequence"
                  ELSE "none",
        ret |-> IF r.times = <<>> THEN 0 ELSE PyMin(r.times),
        times |-> r.times, trials |-> r.trials, data |-> r.heap[1], tick |-> r.tick]

----------------------------------------------------------------------------
(* SpecTime: one call of time_algorithm *)

InitOthersTime ==
    /\ stream = <<>>
    /\ s_pc = "off" /\ s_alg = "" /\ s_arg = <<>> /\ s_after = <<>> /\ s_ret = <<>>
    /\ g_first = <<>> /\ g_last = <<>> /\ g_rnd = <<>>
    /\ pc = "off" /\ sizes = <<>> /\ large_sizes = <<>> /\ patterns = <<>>
    /\ repeats = 0 /\ rows = <<>> /\ p_i = 0 /\ n_i = 0 /\ a_i = 0 /\ data = <<>>
    /\ tick = 0
    /\ c_pc = "off" /\ c_rows = <<>> /\ c_out = <<>>

Funcs == AlgNames \cup {"InPlace"}

InitTime ==
    /\ tape \in Tapes
    /\ t_pc = "call"
    /\ t_func \in Funcs
    /\ t_data \in SeqsUpTo(Values, MaxData)
    /\ t_repeats \in 0 .. MaxRepeats
    /\ t_out = <<>>
    /\ InitOthersTime

TimeCall ==
    /\ t_pc = "call"
    /\ LET r == time_algorithm(t_func, t_data, t_repeats, 0)
       IN /\ t_out' = <<r>>
          /\ t_pc' = IF r.raise = "none" THEN "returned" ELSE "raised"
    /\ UNCHANGED <<t_func, t_data, t_repeats, envVars, sortVars, genVars, benchVars,
                   growVars>>

NextTime == TimeCall

SpecTime == InitTime /\ [][NextTime]_vars

\* C9: time_algorithm with repeats >= 1 makes exactly repeats trials, each one
\* call of func on a new list equal to the dataset, returns the least of the
\* repeats observed durations, and leaves the dataset as it was, even when
\* func sorts its argument in place.
C9_MinOfRepeats ==
    (t_pc # "call" /\ t_repeats >= 1)
    => /\ t_pc = "returned"
       /\ Len(t_out[1].trials) = t_repeats
       /\ \A k \in 1 .. t_repeats :
            t_out[1].trials[k].fresh /\ t_out[1].trials[k].arg = t_data
       /\ t_out[1].times = [k \in 1 .. t_repeats |-> tape[((k - 1) % TapeLen) + 1]]
       /\ \E k \in 1 .. t_repeats : t_out[1].ret = t_out[1].times[k]
       /\ \A k \in 1 .. t_repeats : t_out[1].ret <= t_out[1].times[k]
       /\ t_out[1].data = t_data

\* C9 witness: two trials of the in-place sort on an unsorted dataset have
\* returned, the second faster than the first.
C9_Witness ==
    /\ t_pc = "returned"
    /\ t_func = "InPlace"
    /\ t_repeats = 2
    /\ ~IsSorted(t_data)
    /\ t_out[1].times[2] < t_out[1].times[1]
    /\ t_out[1].ret = t_out[1].times[2]

----------------------------------------------------------------------------
(* Benchmark loop *)

MaxSizes == 2      \* longest sizes argument
MaxLarge == 1      \* longest large_sizes argument
MaxPatterns == 2   \* longest patterns argument

BenchSizes == {0, 1}

BenchPatterns == {"random", "sorted", "nearly_sorted"}

Row(pattern, n, name, t) == [pattern |-> pattern, n |-> n, algorithm |-> name, time_sec |-> t]

\* Mutant: rows.insert(0, row).
PrependRow(rws, row) == <<row>> \o rws

\* rows.append(row)
AppendRow(rws, row) == Append(rws, row)

\* Mutant: the second loop runs over sizes + large_sizes.
LargeLoopAll(szs, lrg) == szs \o lrg

\* The list the second loop of run_benchmarks runs over.
LargeLoop(szs, lrg) == lrg

----------------------------------------------------------------------------
(* Spec: one run of run_benchmarks(sizes, large_sizes, patterns, repeats).  *)
(* pc is the loop the run is in: "small" and "large" the loops over sizes   *)
(* and large_sizes, "small_alg" and "large_alg" the loop over ALGORITHMS    *)
(* inside each; p_i, n_i and a_i index patterns, the size list and          *)
(* ALGORITHMS.  An exception ends the run in "raised".                      *)

InitOthersBench ==
    /\ s_pc = "off" /\ s_alg = "" /\ s_arg = <<>> /\ s_after = <<>> /\ s_ret = <<>>
    /\ g_first = <<>> /\ g_last = <<>> /\ g_rnd = <<>>
    /\ t_pc = "off" /\ t_func = "" /\ t_data = <<>> /\ t_repeats = 0 /\ t_out = <<>>
    /\ c_pc = "off" /\ c_rows = <<>> /\ c_out = <<>>

\* A clock on which successive timed calls take 0, 1, ..., MaxDur, 0, ... ticks.
RampTape == [k \in 1 .. TapeLen |-> (k - 1) % (MaxDur + 1)]

\* The draws of the longest call with a size of BenchSizes.
BenchDraws ==
    LET m == CHOOSE x \in BenchSizes : \A y \in BenchSizes : y <= x
    IN Max2(Draws(m, "random"), Draws(m, "nearly_sorted"))

\* Any BenchDraws outputs of Coin for each seed, independently.
BenchStreams == [Seeds -> [1 .. BenchDraws -> Coin]]

Init ==
    /\ stream \in BenchStreams
    /\ tape = RampTape
    /\ sizes \in SeqsUpTo(BenchSizes, MaxSizes)
    /\ large_sizes \in SeqsUpTo(BenchSizes, MaxLarge)
    /\ patterns \in SeqsUpTo(BenchPatterns, MaxPatterns)
    /\ repeats \in 1 .. MaxRepeats
    /\ rows = <<>>
    /\ pc = "small"
    /\ p_i = 1
    /\ n_i = 1
    /\ a_i = 1
    /\ data = <<>>
    /\ tick = 0
    /\ InitOthersBench

benchArgs == <<sizes, large_sizes, patterns, repeats>>
otherVars == <<envVars, sortVars, genVars, timeVars, growVars>>

\* data = make_dataset(n, pattern, seed=123)
GenSmall ==
    /\ pc = "small"
    /\ p_i <= Len(patterns)
    /\ n_i <= Len(sizes)
    /\ \E d \in {make_dataset(sizes[n_i], patterns[p_i], SeedSmall, NoGenerator)} :
          /\ pc' = IF d.raise = "none" THEN "small_alg" ELSE "raised"
          /\ data' = d.val
    /\ a_i' = 1
    /\ UNCHANGED <<benchArgs, rows, p_i, n_i, tick, otherVars>>

\* t = time_algorithm(func, data, repeats); rows.append(...)
MeasureSmall ==
    /\ pc = "small_alg"
    /\ a_i <= Len(ALGORITHMS)
    /\ \E m \in {time_algorithm(ALGORITHMS[a_i], data, repeats, tick)} :
          /\ pc' = IF m.raise = "none" THEN "small_alg" ELSE "raised"
          /\ rows' = IF m.raise = "none"
                     THEN AppendRow(rows, Row(patterns[p_i], sizes[n_i], ALGORITHMS[a_i], m.ret))
                     ELSE rows
          /\ tick' = m.tick
    /\ a_i' = a_i + 1
    /\ UNCHANGED <<benchArgs, p_i, n_i, data, otherVars>>

\* ALGORITHMS is exhausted: the next n in sizes
NextSmall ==
    /\ pc = "small_alg"
    /\ a_i > Len(ALGORITHMS)
    /\ pc' = "small"
    /\ n_i' = n_i + 1
    /\ UNCHANGED <<benchArgs, rows, p_i, a_i, data, tick, otherVars>>

\* sizes is exhausted: on to large_sizes
EnterLarge ==
    /\ pc = "small"
    /\ p_i <= Len(patterns)
    /\ n_i > Len(sizes)
    /\ pc' = "large"
    /\ n_i' = 1
    /\ UNCHANGED <<benchArgs, rows, p_i, a_i, data, tick, otherVars>>

\* data = make_dataset(n, pattern, seed=777)
GenLarge ==
    /\ pc = "large"
    /\ n_i <= Len(LargeLoop(sizes, large_sizes))
    /\ \E d \in {make_dataset(LargeLoop(sizes, large_sizes)[n_i], patterns[p_i], SeedLarge,
                              NoGenerator)} :
          /\ pc' = IF d.raise = "none" THEN "large_alg" ELSE "raised"
          /\ data' = d.val
    /\ a_i' = 1
    /\ UNCHANGED <<benchArgs, rows, p_i, n_i, tick, otherVars>>

\* if name == "Insertion": continue
SkipInsertion ==
    /\ pc = "large_alg"
    /\ a_i <= Len(ALGORITHMS)
    /\ ALGORITHMS[a_i] = "Insertion"
    /\ a_i' = a_i + 1
    /\ UNCHANGED <<benchArgs, pc, rows, p_i, n_i, data, tick, otherVars>>

\* t = time_algorithm(func, data, repeats); rows.append(...)
MeasureLarge ==
    /\ pc = "large_alg"
    /\ a_i <= Len(ALGORITHMS)
    /\ ALGORITHMS[a_i] # "Insertion"
    /\ \E m \in {time_algorithm(ALGORITHMS[a_i], data, repeats, tick)} :
          /\ pc' = IF m.raise = "none" THEN "large_alg" ELSE "raised"
          /\ rows' = IF m.raise = "none"
                     THEN AppendRow(rows, Row(patterns[p_i], LargeLoop(sizes, large_sizes)[n_i],
                                              ALGORITHMS[a_i], m.ret))
                     ELSE rows
          /\ tick' = m.tick
    /\ a_i' = a_i + 1
    /\ UNCHANGED <<benchArgs, p_i, n_i, data, otherVars>>

\* ALGORITHMS is exhausted: the next n in large_sizes
NextLarge ==
    /\ pc = "large_alg"
    /\ a_i > Len(ALGORITHMS)
    /\ pc' = "large"
    /\ n_i' = n_i + 1
    /\ UNCHANGED <<benchArgs, rows, p_i, a_i, data, tick, otherVars>>

\* large_sizes is exhausted: the next pattern
NextPattern ==
    /\ pc = "large"
    /\ n_i > Len(LargeLoop(sizes, large_sizes))
    /\ pc' = "small"
    /\ p_i' = p_i + 1
    /\ n_i' = 1
    /\ UNCHANGED <<benchArgs, rows, a_i, data, tick, otherVars>>

\* return rows
BenchReturn ==
    /\ pc = "small"
    /\ p_i > Len(patterns)
    /\ pc' = "done"
    /\ UNCHANGED <<benchArgs, rows, p_i, n_i, a_i, data, tick, otherVars>>

Next ==
    \/ GenSmall \/ MeasureSmall \/ NextSmall \/ EnterLarge
    \/ GenLarge \/ SkipInsertion \/ MeasureLarge \/ NextLarge
    \/ NextPattern \/ BenchReturn

Spec == Init /\ [][Next]_vars

Key(r) == <<r.pattern, r.n, r.algorithm>>

NoRepeats(s) == \A k, m \in 1 .. Len(s) : k # m => s[k] # s[m]

AlgIndex(name) == CHOOSE k \in 1 .. Len(ALGORITHMS) : ALGORITHMS[k] = name

\* C4 (as claimed): whatever the lists of sizes and patterns, the returned
\* rows hold at most one row for each (pattern, size, algorithm).
C4_OneRowPerTriple ==
    pc = "done" => \A k, m \in 1 .. Len(rows) : k # m => Key(rows[k]) # Key(rows[m])

\* C4 (amended): when no pattern is listed twice and no size is listed twice
\* in sizes and large_sizes taken together, the returned rows hold at most
\* one row for each (pattern, size, algorithm).
C4_OneRowPerTripleDistinct ==
    (pc = "done" /\ NoRepeats(patterns) /\ NoRepeats(sizes \o large_sizes))
    => \A k, m \in 1 .. Len(rows) : k # m => Key(rows[k]) # Key(rows[m])

\* C4 witness: a returned run over two patterns, two sizes and one large
\* size, none repeated.
C4_Witness ==
    /\ pc = "done"
    /\ NoRepeats(patterns) /\ NoRepeats(sizes \o large_sizes)
    /\ Len(patterns) = 2 /\ Len(sizes) >= 1 /\ Len(large_sizes) = 1
    /\ Len(rows) >= 10

\* C5 (as claimed): every run ends with 3 rows for each entry of sizes and 2
\* rows, none of Insertion, for each entry of large_sizes, under each
\* pattern: |patterns| * (3 * |sizes| + 2 * |large_sizes|) rows in all.
C5_RowCount ==
    pc \in {"done", "raised"}
    => /\ Len(rows) = Len(patterns) * (3 * Len(sizes) + 2 * Len(large_sizes))
       /\ \A p \in 1 .. Len(patterns) :
            LET base == (p - 1) * (3 * Len(sizes) + 2 * Len(large_sizes))
            IN /\ \A k \in 1 .. Len(sizes) :
                    {rows[base + 3 * (k - 1) + a].algorithm : a \in 1 .. 3} = AlgNames
               /\ \A k \in 1 .. Len(large_sizes) :
                    {rows[base + 3 * Len(sizes) + 2 * (k - 1) + a].algorithm : a \in 1 .. 2}
                        = AlgNames \ {"Insertion"}

\* C10 (as claimed): in the returned rows the rows of one pattern are
\* together, within a pattern the rows of one size are together and the
\* sizes ascend, and within one pattern and size the rows follow the
\* registration order of the algorithms.
C10_RowOrder ==
    pc = "done"
    => \A k, m \in 1 .. Len(rows) :
        k < m =>
          /\ rows[k].pattern = rows[m].pattern
                => \A j \in k .. m : rows[j].pattern = rows[k].pattern
          /\ rows[k].pattern = rows[m].pattern => rows[k].n <= rows[m].n
          /\ (rows[k].pattern = rows[m].pattern /\ rows[k].n = rows[m].n)
                => AlgIndex(rows[k].algorithm) < AlgIndex(rows[m].algorithm)

\* The (pattern, size, algorithm) of the r-th row of a run that lists the
\* patterns in argument order, under each pattern the entries of sizes and
\* then those of large_sizes in argument order, and for each entry the
\* algorithms in registration order (Insertion left out for large_sizes).
ListedKey(r) ==
    LET block == 3 * Len(sizes) + 2 * Len(large_sizes)
        p == ((r - 1) \div block) + 1
        o == (r - 1) % block
    IN IF o < 3 * Len(sizes)
       THEN <<patterns[p], sizes[(o \div 3) + 1], ALGORITHMS[(o % 3) + 1]>>
       ELSE <<patterns[p], large_sizes[((o - 3 * Len(sizes)) \div 2) + 1],
              ALGORITHMS[((o - 3 * Len(sizes)) % 2) + 2]>>

\* C10 (amended): the returned rows are in the order of the arguments:
\* pattern-major in the order of patterns, under each pattern the entries of
\* sizes and then those of large_sizes in the order listed (not sorted, a
\* repeated entry repeated), and for each entry the algorithms in
\* registration order.
C10_RowOrderAsListed ==
    pc = "done" => \A r \in 1 .. Len(rows) : Key(rows[r]) = ListedKey(r)

\* C10 witness: a returned run over two patterns whose sizes are listed in
\* descending order, followed by a large size.
C10_Witness ==
    /\ pc = "done"
    /\ Len(patterns) = 2 /\ patterns[1] # patterns[2]
    /\ sizes = <<1, 0>>
    /\ Len(large_sizes) = 1
    /\ Len(rows) = 16

----------------------------------------------------------------------------
(* Growth factors *)

\* sizes, patterns and the algorithm list of compute_growth
Ladder == <<1000, 2000, 5000>>

GrowthPatterns == <<"random", "reversed", "nearly_sorted">>

GrowthAlgos == <<"Insertion", "Merge", "Timsort (built-in)">>

\* The two pair labels ("1k" + arrow + "2k" in the source).
PairLabels == <<"1k->2k", "2k->5k">>

\* Floats: not-a-number, or the quotient num / den in lowest terms.
NaN == [nan |-> TRUE, num |-> 0, den |-> 1]

Float(x) == [nan |-> FALSE, num |-> x, den |-> 1]

RECURSIVE Gcd(_, _)
Gcd(a, b) == IF b = 0 THEN a ELSE Gcd(b, a % b)

\* x / y of two floats: ZeroDivisionError when y is zero, whatever x is;
\* not-a-number when either is; else the quotient.
FloatDiv(x, y) ==
    IF ~y.nan /\ y.num = 0 THEN [raise |-> "ZeroDivisionError", val |-> NaN]
    ELSE IF x.nan \/ y.nan THEN [raise |-> "none", val |-> NaN]
    ELSE LET n == x.num * y.den
             d == x.den * y.num
             g == Gcd(n, d)
         IN [raise |-> "none",
             val |-> IF n = 0 THEN Float(0) ELSE [nan |-> FALSE, num |-> n \div g, den |-> d \div g]]

\* vals = [r["time_sec"] for r in rows if ...]
Vals(rws, pattern, n, algo) ==
    LET match(r) == r.pattern = pattern /\ r.n = n /\ r.algorithm = algo
        hits == SelectSeq(rws, match)
    IN [k \in 1 .. Len(hits) |-> hits[k].time_sec]

\* ts: for n in sizes, float("nan") if not vals else min(vals)
Ts(rws, pattern, algo) ==
    [k \in 1 .. Len(Ladder) |->
        LET vals == Vals(rws, pattern, Ladder[k], algo)
        IN IF vals = <<>> THEN NaN ELSE Float(PyMin(vals))]

GrowthRow(pattern, algo, pair, g) ==
    [pattern |-> pattern, algorithm |-> algo, pair |-> pair, growth |-> g]

\* The two nested loops of compute_growth, from the k-th (pattern, algo) on.
RECURSIVE GrowthLoop(_, _, _)
GrowthLoop(k, rws, result) ==
    IF k > Len(GrowthPatterns) * Len(GrowthAlgos) THEN [raise |-> "none", val |-> result]
    ELSE LET pattern == GrowthPatterns[((k - 1) \div Len(GrowthAlgos)) + 1]
             algo == GrowthAlgos[((k - 1) % Len(GrowthAlgos)) + 1]
             ts == Ts(rws, pattern, algo)
             g1 == FloatDiv(ts[2], ts[1])
             g2 == FloatDiv(ts[3], ts[2])
         IN IF g1.raise # "none" THEN [raise |-> g1.raise, val |-> <<>>]
            ELSE IF g2.raise # "none" THEN [raise |-> g2.raise, val |-> <<>>]
            ELSE GrowthLoop(k + 1, rws,
                            result \o <<GrowthRow(pattern, algo, PairLabels[1], g1.val),
                                        GrowthRow(pattern, algo, PairLabels[2], g2.val)>>)

compute_growth(rws) == GrowthLoop(1, rws, <<>>)

----------------------------------------------------------------------------
(* SpecGrowth: one call of compute_growth.  The rows hold, for two         *)
(* (pattern, algorithm) pairs and each ladder size, one row or none, at    *)
(* most one second row for the first cell, and two rows compute_growth has *)
(* no use for.                                                             *)

InitOthersGrowth ==
    /\ stream = <<>> /\ tape = <<>>
    /\ s_pc = "off" /\ s_alg = "" /\ s_arg = <<>> /\ s_after = <<>> /\ s_ret = <<>>
    /\ g_first = <<>> /\ g_last = <<>> /\ g_rnd = <<>>
    /\ t_pc = "off" /\ t_func = "" /\ t_data = <<>> /\ t_repeats = 0 /\ t_out = <<>>
    /\ pc = "off" /\ sizes = <<>> /\ large_sizes = <<>> /\ patterns = <<>>
    /\ repeats = 0 /\ rows = <<>> /\ p_i = 0 /\ n_i = 0 /\ a_i = 0 /\ data = <<>>
    /\ tick = 0

\* The mark, in the table the rows are drawn from, of a cell with no row.
Absent == MaxDur + 1

TableCells ==
    <<<<"random", 1000, "Insertion">>, <<"random", 2000, "Insertion">>,
      <<"random", 5000, "Insertion">>, <<"reversed", 1000, "Merge">>,
      <<"reversed", 2000, "Merge">>, <<"reversed", 5000, "Merge">>,
      <<"random", 1000, "Insertion">>>>

OtherRows == <<Row("sorted", 1000, "Insertion", 0), Row("random", 10000, "Merge", 0)>>

RowsOfTable(tbl) ==
    LET present(r) == r.time_sec # Absent
    IN SelectSeq([k \in 1 .. Len(TableCells) |->
                    Row(TableCells[k][1], TableCells[k][2], TableCells[k][3], tbl[k])],
                 present)

InitGrowth ==
    /\ c_pc = "call"
    /\ \E tbl \in [1 .. Len(TableCells) -> {Absent} \cup Durations] :
           c_rows = OtherRows \o RowsOfTable(tbl)
    /\ c_out = <<>>
    /\ InitOthersGrowth

GrowthCall ==
    /\ c_pc = "call"
    /\ LET r == compute_growth(c_rows)
       IN /\ c_out' = <<r>>
          /\ c_pc' = IF r.raise = "none" THEN "returned" ELSE "raised"
    /\ UNCHANGED <<c_rows, envVars, sortVars, genVars, timeVars, benchVars>>

NextGrowth == GrowthCall

SpecGrowth == InitGrowth /\ [][NextGrowth]_vars

HasRow(pattern, n, algo) ==
    \E k \in 1 .. Len(c_rows) :
        c_rows[k].pattern = pattern /\ c_rows[k].n = n /\ c_rows[k].algorithm = algo

\* The ladder sizes a pair label touches.
Touches(pair) == IF pair = PairLabels[1] THEN {Ladder[1], Ladder[2]} ELSE {Ladder[2], Ladder[3]}

\* C6 (as claimed): for every (pattern, algorithm) of interest: if the rows
\* hold no row for it at a ladder size s, each of its growth rows whose pair
\* touches s is not-a-number; and if the rows hold a row for it at all three
\* ladder sizes, it gets a numeric ratio for both of its pairs.
C6_MissingIsNaN ==
    c_pc # "call"
    => \A p \in Range(GrowthPatterns), a \in Range(GrowthAlgos) :
        /\ \A s \in Range(Ladder) :
             ~HasRow(p, s, a)
             => \A k \in 1 .. Len(c_out[1].val) :
                    (c_out[1].val[k].pattern = p /\ c_out[1].val[k].algorithm = a
                        /\ s \in Touches(c_out[1].val[k].pair))
                    => c_out[1].val[k].growth.nan
        /\ (\A s \in Range(Ladder) : HasRow(p, s, a))
             => \A pair \in Range(PairLabels) :
                    \E k \in 1 .. Len(c_out[1].val) :
                        /\ c_out[1].val[k].pattern = p /\ c_out[1].val[k].algorithm = a
                        /\ c_out[1].val[k].pair = pair
                        /\ ~c_out[1].val[k].growth.nan

\* min(vals) over the rows matching (pattern, n, algo); Absent when none match.
MinDuration(pattern, n, algo) ==
    LET vals == Vals(c_rows, pattern, n, algo)
    IN IF vals = <<>> THEN Absent ELSE PyMin(vals)

\* g is the ratio of the minimum duration at the larger size to the one at
\* the smaller size: not-a-number when either is missing, else the float q
\* with q * smaller = larger.
IsRatio(g, larger, smaller) ==
    IF larger = Absent \/ smaller = Absent THEN g.nan
    ELSE ~g.nan /\ smaller # 0 /\ g.num * smaller = g.den * larger

\* C11 (as claimed): whatever rows with non-negative durations it is given
\* (duplicates and durations of exactly 0 included), compute_growth returns
\* normally, with exactly 18 growth rows: for each pattern of (random,
\* reversed, nearly_sorted) and each algorithm of (Insertion, Merge, Timsort
\* (built-in)), in that order, one row for pair 1k->2k followed by one for
\* pair 2k->5k, each ratio being the minimum duration at the larger size
\* divided by the minimum duration at the smaller size.
C11_NeverAborts ==
    c_pc # "call"
    => /\ c_pc = "returned"
       /\ Len(c_out[1].val) = 18
       /\ \A i \in 1 .. Len(GrowthPatterns), j \in 1 .. Len(GrowthAlgos), q \in 1 .. Len(PairLabels) :
            LET k == 2 * ((i - 1) * Len(GrowthAlgos) + (j - 1)) + q
                r == c_out[1].val[k]
            IN /\ r.pattern = GrowthPatterns[i]
               /\ r.algorithm = GrowthAlgos[j]
               /\ r.pair = PairLabels[q]
               /\ IsRatio(r.growth,
                          MinDuration(GrowthPatterns[i], Ladder[q + 1], GrowthAlgos[j]),
                          MinDuration(GrowthPatterns[i], Ladder[q], GrowthAlgos[j]))

====
